---- MODULE Spec2Model ----
(***************************************************************************)
(* Model of the matching / training core of thera-pipeline-aws:            *)
(*   - the ML trainer      (lambda-ml-training/lambda_function.py)         *)
(*   - the weekly trainer  (lambda-weekly-trainer.py)                      *)
(*   - the matcher         (lambda-matcher.py)                             *)
(*   - the standalone scorer (matcher-scoring-snippet.py)                  *)
(* sharing the S3 model store.                                             *)
(*                                                                         *)
(* Numbers: metrics (auc_score, accuracy, pr_auc_score) are integers in    *)
(* units of 0.01, so the promotion threshold 0.01 is 1 unit; feature       *)
(* values and coefficients are integers (tenths).  Python dicts are TLA+   *)
(* records / functions, a missing key is a key outside DOMAIN, and Python  *)
(* None is the empty function.                                             *)
(***************************************************************************)
EXTENDS Integers, Sequences, FiniteSets, TLC

VARIABLES
    store,       \* S3 model bucket: key -> artifact (None: no such object)
    evalStore,   \* S3 object at EVAL_KEY of the weekly trainer (None: absent)
    clock,       \* int(time.time()) as seen by the next train_model call
    kind,        \* run -> "none" | "ml" | "weekly": which handler the invocation runs
    pc,          \* run -> position of the handler
    nrows,       \* run -> len(df) of the data the run loaded (-1: nothing loaded)
    model_data,  \* run -> local model_data of the handler (None before train_model)
    old_model,   \* run -> local old_model of the ML trainer's handler
    resp,        \* run -> the handler's response (None while running)
    hist,        \* run -> history of the run: what it did (ghost)
    saved,       \* set of artifacts handed to a successful save_model (ghost)
    rpc,         \* request -> position of the matcher's handler
    matcher,     \* request -> fields of its EmbeddingsMatcher instance
    todo,        \* request -> candidates find_matches has still to score
    results,     \* request -> results list of find_matches
    rlog,        \* request -> what the request did and was given (ghost)
    rresp,       \* request -> the matcher handler's response (None while running)
    fdf,         \* feature check: the training rows
    fout,        \* feature check: prepare_features' output on fdf (None before)
    fserve,      \* feature check: the serving vector of one record (None before)
    fidx,        \* feature check: the record served (0 before)
    fscore,      \* feature check: the scores of that record (None before)
    call,        \* rule check: the call of a matcher function, with its arguments
    ret,         \* rule check: what the call returned (None before)
    ev,          \* evaluation run -> locals of the evaluation lambda's handler
    reports,     \* S3 objects under ml-evaluation/: key -> report
    utcnow       \* datetime.utcnow() of the evaluation lambda, in microseconds

lifecycleVars == <<store, evalStore, clock, kind, pc, nrows, model_data, old_model,
                   resp, hist, saved>>
requestVars == <<rpc, matcher, todo, results, rlog, rresp>>
featureVars == <<fdf, fout, fserve, fidx, fscore>>
ruleVars == <<call, ret>>
evaluationVars == <<ev, reports, utcnow>>
vars == <<lifecycleVars, requestVars,
                   featureVars, ruleVars, evaluationVars>>

-----------------------------------------------------------------------------
(* Bounds of the model *)

MaxRuns == 2        \* training invocations
MaxReqs == 1        \* matcher requests
MaxMetric == 2      \* metrics range over 0..MaxMetric hundredths
MaxRows == 2        \* rows of a data frame in the feature check
MaxEvalRuns == 2    \* invocations of the evaluation lambda
MaxDim == 2         \* components of an embedding in the rule check

Runs == 1..MaxRuns
Reqs == 1..MaxReqs
MetricVals == 0..MaxMetric

-----------------------------------------------------------------------------
(* Python helpers *)

None == <<>>

\* dict.get(k, default)
Get(d, k, default) == IF k \in DOMAIN d THEN d[k] ELSE default

\* truth value of a dict-or-None (None and {} are falsy)
Truthy(d) == DOMAIN d # {}

\* pandas Series.unique(): the distinct values in order of first appearance
RECURSIVE Unique(_)
Unique(s) ==
    IF s = <<>> THEN <<>>
    ELSE LET init == Unique(SubSeq(s, 1, Len(s) - 1))
             last == s[Len(s)]
         IN IF \E i \in 1..Len(init) : init[i] = last THEN init ELSE Append(init, last)

\* str.startswith(prefix)
StartsWith(s, prefix) ==
    Len(s) >= Len(prefix) /\ SubSeq(s, 1, Len(prefix)) = prefix

\* str.replace(old, ""): every non-overlapping occurrence of old removed, left to right
RECURSIVE Remove(_, _)
Remove(s, old) ==
    IF Len(s) < Len(old) THEN s
    ELSE IF SubSeq(s, 1, Len(old)) = old
         THEN Remove(SubSeq(s, Len(old) + 1, Len(s)), old)
         ELSE SubSeq(s, 1, 1) \o Remove(SubSeq(s, 2, Len(s)), old)

-----------------------------------------------------------------------------
(* Training data *)

\* A record of the training query's result (one shortlist row joined with its
\* company).  A column that is NULL for the record is a key outside DOMAIN.
RowA ==
    [ embedding_similarity |-> 8, ml_score |-> 6,
      rule_features |-> [industry_match |-> 10, geo_match |-> 0, name_similarity |-> 5],
      industry |-> "tech", country |-> "US",
      employee_count |-> 50, annual_revenue |-> 3, total_funding |-> 7,
      domain_health_score |-> 9, content_richness_score |-> 4,
      contacted_within_14_days |-> 1 ]

\* industry and employee_count are NULL, rule_features is not a JSON object
RowB ==
    [ embedding_similarity |-> 3, ml_score |-> 2,
      rule_features |-> [not_a_dict |-> TRUE],
      country |-> "BR",
      annual_revenue |-> 1, total_funding |-> 0,
      domain_health_score |-> 2, content_richness_score |-> 1,
      contacted_within_14_days |-> 0 ]

\* country is NULL, rule_features has no name_similarity
RowC ==
    [ embedding_similarity |-> 5, ml_score |-> 0,
      rule_features |-> [industry_match |-> 0, geo_match |-> 10],
      industry |-> "health",
      employee_count |-> 10, annual_revenue |-> 0, total_funding |-> 2,
      domain_health_score |-> 6, content_richness_score |-> 8,
      contacted_within_14_days |-> 1 ]

\* every column set; prior ml_score 0
RowD ==
    [ embedding_similarity |-> 9, ml_score |-> 0,
      rule_features |-> [industry_match |-> 10, geo_match |-> 10, name_similarity |-> 10],
      industry |-> "tech", country |-> "BR",
      employee_count |-> 7, annual_revenue |-> 2, total_funding |-> 1,
      domain_health_score |-> 5, content_richness_score |-> 5,
      contacted_within_14_days |-> 0 ]

RowPool == {RowA, RowB, RowC, RowD}

StringColumns == {"industry", "country"}
NumericColumns == {"embedding_similarity", "ml_score", "employee_count", "annual_revenue",
                   "total_funding", "domain_health_score", "content_richness_score",
                   "contacted_within_14_days"}

\* get_training_data of the ML trainer builds each record from the Athena result row:
\* value = VarCharValue or '', numeric fields float(value) if value else 0.0,
\* rule_features json.loads(value) if value else {}, other fields the string itself.
AthenaRecord(row) ==
    [ f \in StringColumns \cup NumericColumns \cup {"rule_features"} |->
        IF f \in StringColumns THEN Get(row, f, "")
        ELSE IF f \in NumericColumns THEN Get(row, f, 0)
        ELSE Get(row, f, <<>>) ]

AthenaRecords(rows) == [i \in 1..Len(rows) |-> AthenaRecord(rows[i])]

-----------------------------------------------------------------------------
(* prepare_features of the two trainers (the two methods are the same code) *)

\* isinstance(rule_features, dict)
IsDict(rf) == "not_a_dict" \notin DOMAIN rf

\* rule_features.get(name, 0.0) if isinstance(rule_features, dict) else 0.0
RuleFeature(row, name) ==
    IF IsDict(row.rule_features) THEN Get(row.rule_features, name, 0) ELSE 0

FixedNames ==
    << "embedding_similarity", "ml_score", "industry_match", "geo_match",
       "name_similarity", "employee_count", "annual_revenue", "total_funding",
       "domain_health_score", "content_richness_score" >>

\* the value of the ten fixed columns for one record
FixedValues(row) ==
    << row.embedding_similarity, row.ml_score,
       RuleFeature(row, "industry_match"), RuleFeature(row, "geo_match"),
       RuleFeature(row, "name_similarity"),
       Get(row, "employee_count", 0), Get(row, "annual_revenue", 0),
       Get(row, "total_funding", 0), Get(row, "domain_health_score", 0),
       Get(row, "content_richness_score", 0) >>

\* df[col].fillna('unknown')
FillUnknown(rows, col) == [i \in 1..Len(rows) |-> Get(rows[i], col, "unknown")]

\* the one-hot columns of a categorical column: names and, per record, values
OneHotNames(prefix, values) == [k \in 1..Len(values) |-> prefix \o values[k]]
OneHotValues(filled, i, values) ==
    [k \in 1..Len(values) |-> IF filled[i] = values[k] THEN 10 ELSE 0]

\* prepare_features that appends the name_similarity column without its name
prepare_features_missing_name(rows) ==
    LET industry   == FillUnknown(rows, "industry")
        country    == FillUnknown(rows, "country")
        industries == Unique(industry)
        countries  == Unique(country)
    IN [ X |-> [i \in 1..Len(rows) |->
                   FixedValues(rows[i]) \o OneHotValues(industry, i, industries)
                                        \o OneHotValues(country, i, countries)],
         y |-> [i \in 1..Len(rows) |-> rows[i].contacted_within_14_days],
         feature_names |-> SubSeq(FixedNames, 1, 4) \o SubSeq(FixedNames, 6, 10)
                              \o OneHotNames("industry_", industries)
                              \o OneHotNames("country_", countries) ]

prepare_features(rows) ==
    LET industry   == FillUnknown(rows, "industry")
        country    == FillUnknown(rows, "country")
        industries == Unique(industry)
        countries  == Unique(country)
    IN [ X |-> [i \in 1..Len(rows) |->
                   FixedValues(rows[i]) \o OneHotValues(industry, i, industries)
                                        \o OneHotValues(country, i, countries)],
         y |-> [i \in 1..Len(rows) |-> rows[i].contacted_within_14_days],
         feature_names |-> FixedNames \o OneHotNames("industry_", industries)
                                      \o OneHotNames("country_", countries) ]

-----------------------------------------------------------------------------
(* The model store and the trainers' pure steps *)

\* MODEL_KEY of the ML trainer and of the matcher
ML_MODEL_KEY == "match_lr/model.json"
\* MODEL_KEY of the weekly trainer and of the standalone scorer
WEEKLY_MODEL_KEY == "models/match_lr/model.json"
ModelKeys == {ML_MODEL_KEY, WEEKLY_MODEL_KEY}

\* a put that is no atomic replace: the object keeps the coefficients it had (none
\* when there was no object) while the other entries are already the new ones
PutObject_torn(s, key, body) ==
    [s EXCEPT ![key] =
        [body EXCEPT !.coefficients = IF s[key] = None THEN <<>> ELSE s[key].coefficients]]

\* s3_client.put_object(Bucket, Key, Body): one atomic replace of the whole object.
\* Body is json.dumps(model_data); json.loads gives the same dict back (the dict
\* holds strings, floats and lists of them), so the object is kept as the dict.
PutObject(s, key, body) == [s EXCEPT ![key] = body]

\* the threshold one too low: 99 records would train
InsufficientData_99(n) == n < 99

\* len(df) < 100 in the two handlers
InsufficientData(n) == n < 100

\* LogisticRegression.fit is external: a coefficient vector with one entry per
\* column of X (model.coef_[0]) and an intercept, with values from coefs.
CoefVals == {-1, 2}
FitOutputs(ncols, coefs) ==
    {[coef |-> [i \in 1..ncols |-> c], intercept |-> b] : c \in coefs, b \in {0}}

NumCols(X) == IF X = <<>> THEN 0 ELSE Len(X[1])

\* train_model that persists the names with the first one moved to the end
train_model_reordered(X, y, feature_names, fit, auc, acc, now) ==
    [ model_type |-> "logistic_regression",
      coefficients |-> fit.coef,
      intercept |-> fit.intercept,
      feature_order |-> Tail(feature_names) \o <<Head(feature_names)>>,
      auc_score |-> auc,
      accuracy |-> acc,
      model_version |-> now ]

\* model_data of MLTrainer.train_model (the descriptive entries precision, recall,
\* f1_score, feature_importance, the sample counts and trained_at are left out)
train_model(X, y, feature_names, fit, auc, acc, now) ==
    [ model_type |-> "logistic_regression",
      coefficients |-> fit.coef,
      intercept |-> fit.intercept,
      feature_order |-> feature_names,
      auc_score |-> auc,
      accuracy |-> acc,
      model_version |-> now ]

\* model_data of WeeklyTrainer.train_model: pr_auc_score, and no accuracy
weekly_train_model(X, y, feature_names, fit, auc, pr_auc, now) ==
    [ model_type |-> "logistic_regression",
      coefficients |-> fit.coef,
      intercept |-> fit.intercept,
      feature_order |-> feature_names,
      auc_score |-> auc,
      pr_auc_score |-> pr_auc,
      model_version |-> now ]

\* eval_data of WeeklyTrainer.save_evaluation_metrics
eval_data(md) ==
    [ auc_score |-> md.auc_score, pr_auc_score |-> md.pr_auc_score,
      model_version |-> md.model_version ]

\* compare_models with >= for >: an improvement of exactly 0.01 promotes
compare_models_ge(new_model, old) ==
    IF ~Truthy(old)
    THEN [ improvement |-> TRUE, auc_improvement |-> 0, accuracy_improvement |-> 0,
           reason |-> "No previous model to compare" ]
    ELSE LET auc_improvement == new_model.auc_score - Get(old, "auc_score", 0)
             accuracy_improvement == new_model.accuracy - Get(old, "accuracy", 0)
             improvement == auc_improvement >= 1 \/ accuracy_improvement >= 1
         IN [ improvement |-> improvement,
              auc_improvement |-> auc_improvement,
              accuracy_improvement |-> accuracy_improvement,
              reason |-> IF improvement THEN "Model improved"
                         ELSE "Model did not improve significantly" ]

\* MLTrainer.compare_models; 0.01 is 1 hundredth.  (The except branch needs a
\* metric that is no number, which no artifact of the trainers holds.)
compare_models(new_model, old) ==
    IF ~Truthy(old)
    THEN [ improvement |-> TRUE, auc_improvement |-> 0, accuracy_improvement |-> 0,
           reason |-> "No previous model to compare" ]
    ELSE LET auc_improvement == new_model.auc_score - Get(old, "auc_score", 0)
             accuracy_improvement == new_model.accuracy - Get(old, "accuracy", 0)
             improvement == auc_improvement > 1 \/ accuracy_improvement > 1
         IN [ improvement |-> improvement,
              auc_improvement |-> auc_improvement,
              accuracy_improvement |-> accuracy_improvement,
              reason |-> IF improvement THEN "Model improved"
                         ELSE "Model did not improve significantly" ]

\* if comparison['improvement'] or not old_model
ShouldSave(comparison, old) == comparison.improvement \/ ~Truthy(old)

-----------------------------------------------------------------------------
(* Training invocations *)

\* a data frame: its length and its leading records (the others repeat them)
SampleSizes == {99, 100}
TrainingRows == {<<RowA>>, <<RowA, RowB>>}
DataFrames(sizes, rowseqs) == {[len |-> n, rows |-> rs] : n \in sizes, rs \in rowseqs}

\* the step of a handler that raises, or "ok"
MLOutcomes == {"get_training_data", "prepare_features", "train_model", "ok"}
WeeklyOutcomes == {"unload_training_data", "load_training_data_from_s3",
                   "prepare_features", "train_model", "ok"}

\* fitted: LogisticRegression.fit was called; saveCalled: save_model was called;
\* wrote: its put_object replaced the object; decision: comparison['reason'] of
\* compare_models; prevExisted: the object existed when load_previous_model read it
NoHist == [fitted |-> FALSE, saveCalled |-> FALSE, wrote |-> FALSE, decision |-> "none",
           prevExisted |-> FALSE]

\* an error response that carries a list of matches
ErrorResponse_partial(stage) == [statusCode |-> 500, error |-> stage, matches |-> <<>>]

\* the except branch of a handler: statusCode 500 and the error
ErrorResponse(stage) == [statusCode |-> 500, error |-> stage]
InsufficientResponse(n) == [statusCode |-> 200, training_samples |-> n, model_saved |-> FALSE]

\* invocations start in the order of their numbers
MayStart(r) == pc[r] = "idle" /\ (IF r = 1 THEN TRUE ELSE pc[r - 1] # "idle")

Finish(r, response) ==
    /\ pc' = [pc EXCEPT ![r] = "done"]
    /\ resp' = [resp EXCEPT ![r] = response]
    /\ model_data' = [model_data EXCEPT ![r] = None]
    /\ old_model' = [old_model EXCEPT ![r] = None]

\* ML trainer, lambda_handler up to train_model: no shared state is touched.
\* The inputs of the run are drawn from the sets given: the data frame, the step that
\* fails, what fit returns, and the metrics measured on the test split.
MLTrain(r, frames, outcomes, coefs, aucs, accs) ==
    /\ MayStart(r)
    /\ kind' = [kind EXCEPT ![r] = "ml"]
    /\ UNCHANGED <<store, evalStore, saved, requestVars,
                   featureVars, ruleVars, evaluationVars>>
    /\ \E df \in frames, outcome \in outcomes :
         IF outcome = "get_training_data"
         THEN /\ Finish(r, ErrorResponse(outcome))
              /\ UNCHANGED <<nrows, hist, clock>>
         ELSE /\ nrows' = [nrows EXCEPT ![r] = df.len]
              /\ IF InsufficientData(df.len)
                 THEN /\ Finish(r, InsufficientResponse(df.len))
                      /\ UNCHANGED <<hist, clock>>
                 ELSE IF outcome = "prepare_features"
                 THEN /\ Finish(r, ErrorResponse(outcome))
                      /\ UNCHANGED <<hist, clock>>
                 ELSE IF outcome = "train_model"
                 THEN /\ Finish(r, ErrorResponse(outcome))
                      /\ hist' = [hist EXCEPT ![r].fitted = TRUE]
                      /\ UNCHANGED clock
                 ELSE LET p == prepare_features(AthenaRecords(df.rows))
                      IN \E fit \in FitOutputs(NumCols(p.X), coefs),
                            auc \in aucs, acc \in accs :
                           /\ model_data' = [model_data EXCEPT ![r] =
                                train_model(p.X, p.y, p.feature_names, fit, auc, acc, clock)]
                           /\ hist' = [hist EXCEPT ![r].fitted = TRUE]
                           /\ clock' = clock + 1
                           /\ pc' = [pc EXCEPT ![r] = "trained"]
                           /\ UNCHANGED <<resp, old_model>>

\* MLTrainer.load_previous_model: get_object, None on any exception
MLLoadPrevious(r) ==
    /\ kind[r] = "ml" /\ pc[r] = "trained"
    /\ \E readOk \in BOOLEAN :
         old_model' = [old_model EXCEPT ![r] = IF readOk THEN store[ML_MODEL_KEY] ELSE None]
    /\ hist' = [hist EXCEPT ![r].prevExisted = Truthy(store[ML_MODEL_KEY])]
    /\ pc' = [pc EXCEPT ![r] = "loaded"]
    /\ UNCHANGED <<store, evalStore, clock, kind, nrows, model_data, resp, saved,
                   requestVars,
                   featureVars, ruleVars, evaluationVars>>

\* compare_models, then save_model or not, emit metrics, return
MLDecide(r) ==
    /\ kind[r] = "ml" /\ pc[r] = "loaded"
    /\ LET comparison == compare_models(model_data[r], old_model[r])
       IN IF ShouldSave(comparison, old_model[r])
          THEN \E putOk \in BOOLEAN :
                 IF putOk
                 THEN /\ store' = PutObject(store, ML_MODEL_KEY, model_data[r])
                      /\ saved' = saved \cup {model_data[r]}
                      /\ hist' = [hist EXCEPT ![r].saveCalled = TRUE, ![r].wrote = TRUE,
                                              ![r].decision = comparison.reason]
                      /\ Finish(r, [statusCode |-> 200, model_saved |-> TRUE])
                 ELSE /\ hist' = [hist EXCEPT ![r].saveCalled = TRUE,
                                              ![r].decision = comparison.reason]
                      /\ Finish(r, ErrorResponse("save_model"))
                      /\ UNCHANGED <<store, saved>>
          ELSE /\ hist' = [hist EXCEPT ![r].decision = comparison.reason]
               /\ Finish(r, [statusCode |-> 200, model_saved |-> FALSE])
               /\ UNCHANGED <<store, saved>>
    /\ UNCHANGED <<evalStore, clock, kind, nrows, requestVars,
                   featureVars, ruleVars, evaluationVars>>

\* weekly trainer, lambda_handler up to train_model
WeeklyTrain(r, frames, outcomes, coefs, aucs, pr_aucs) ==
    /\ MayStart(r)
    /\ kind' = [kind EXCEPT ![r] = "weekly"]
    /\ UNCHANGED <<store, evalStore, saved, requestVars,
                   featureVars, ruleVars, evaluationVars>>
    /\ \E df \in frames, outcome \in outcomes :
         IF outcome \in {"unload_training_data", "load_training_data_from_s3"}
         THEN /\ Finish(r, ErrorResponse(outcome))
              /\ UNCHANGED <<nrows, hist, clock>>
         ELSE /\ nrows' = [nrows EXCEPT ![r] = df.len]
              /\ IF InsufficientData(df.len)
                 THEN /\ Finish(r, InsufficientResponse(df.len))
                      /\ UNCHANGED <<hist, clock>>
                 ELSE IF outcome = "prepare_features"
                 THEN /\ Finish(r, ErrorResponse(outcome))
                      /\ UNCHANGED <<hist, clock>>
                 ELSE IF outcome = "train_model"
                 THEN /\ Finish(r, ErrorResponse(outcome))
                      /\ hist' = [hist EXCEPT ![r].fitted = TRUE]
                      /\ UNCHANGED clock
                 ELSE LET p == prepare_features(df.rows)
                      IN \E fit \in FitOutputs(NumCols(p.X), coefs),
                            auc \in aucs, pr_auc \in pr_aucs :
                           /\ model_data' = [model_data EXCEPT ![r] =
                                weekly_train_model(p.X, p.y, p.feature_names, fit,
                                                   auc, pr_auc, clock)]
                           /\ hist' = [hist EXCEPT ![r].fitted = TRUE]
                           /\ clock' = clock + 1
                           /\ pc' = [pc EXCEPT ![r] = "trained"]
                           /\ UNCHANGED <<resp, old_model>>

\* WeeklyTrainer.save_model, called right after train_model
WeeklySaveModel(r) ==
    /\ kind[r] = "weekly" /\ pc[r] = "trained"
    /\ \E putOk \in BOOLEAN :
         IF putOk
         THEN /\ store' = PutObject(store, WEEKLY_MODEL_KEY, model_data[r])
              /\ saved' = saved \cup {model_data[r]}
              /\ hist' = [hist EXCEPT ![r].saveCalled = TRUE, ![r].wrote = TRUE]
              /\ pc' = [pc EXCEPT ![r] = "model_saved"]
              /\ UNCHANGED <<resp, model_data, old_model>>
         ELSE /\ Finish(r, ErrorResponse("save_model"))
              /\ hist' = [hist EXCEPT ![r].saveCalled = TRUE]
              /\ UNCHANGED <<store, saved>>
    /\ UNCHANGED <<evalStore, clock, kind, nrows, requestVars,
                   featureVars, ruleVars, evaluationVars>>

\* WeeklyTrainer.save_evaluation_metrics, emit metrics, return
WeeklySaveEval(r) ==
    /\ kind[r] = "weekly" /\ pc[r] = "model_saved"
    /\ \E putOk \in BOOLEAN :
         IF putOk
         THEN /\ evalStore' = eval_data(model_data[r])
              /\ Finish(r, [statusCode |-> 200, model_key |-> WEEKLY_MODEL_KEY])
         ELSE /\ Finish(r, ErrorResponse("save_evaluation_metrics"))
              /\ UNCHANGED evalStore
    /\ UNCHANGED <<store, clock, kind, nrows, hist, saved, requestVars,
                   featureVars, ruleVars, evaluationVars>>

-----------------------------------------------------------------------------
(* The matcher: EmbeddingsMatcher and its lambda_handler.                     *)
(* Similarities, feature values, coefficients and intercepts are in tenths,   *)
(* a linear score is in hundredths, ml_score and final_score in thousandths.  *)

TOP_RESULTS == 20

\* a default model with three equal coefficients
DefaultModel_uniform ==
    [ coefficients |-> <<3, 3, 3>>,
      intercept |-> 0,
      feature_order |-> <<"embedding_similarity", "industry_match", "geo_match">> ]

\* the model load_ml_model returns when the object cannot be loaded
DefaultModel ==
    [ coefficients |-> <<5, 3, 2>>,      \* [0.5, 0.3, 0.2]
      intercept |-> 0,
      feature_order |-> <<"embedding_similarity", "industry_match", "geo_match">> ]

\* s3_client.get_object + json.loads: the whole object as it is at this moment, or an
\* exception (None here) when the call fails or there is no such object
GetObject(s, key, readOk) == IF readOk THEN s[key] ELSE None

\* EmbeddingsMatcher.load_ml_model: [model, self] after the call
load_ml_model(self, s, readOk) ==
    IF self.model_loaded /\ Truthy(self.ml_model)
    THEN [model |-> self.ml_model, self |-> self]
    ELSE LET body == GetObject(s, ML_MODEL_KEY, readOk)
         IN IF body # None
            THEN [model |-> body,
                  self |-> [ml_model |-> body, model_loaded |-> TRUE]]
            ELSE [model |-> DefaultModel, self |-> self]

\* math.exp in fixed point: ExpStep / ExpScale is e^-0.01
ExpScale == 40000
ExpStep == 39602

\* e^(-n/100) in units of 1/ExpScale, n >= 0, by repeated squaring
RECURSIVE ExpNeg(_)
ExpNeg(n) ==
    IF n = 0 THEN ExpScale
    ELSE LET h == ExpNeg(n \div 2)
             sq == (h * h + ExpScale \div 2) \div ExpScale
         IN IF n % 2 = 1 THEN (sq * ExpStep + ExpScale \div 2) \div ExpScale ELSE sq

\* 1 / (1 + math.exp(-score)) in thousandths (to the nearest), score in hundredths.
\* Below -709.78 math.exp overflows and the except branch returns 0.0.
Sigmoid(z) ==
    IF z < -70978 THEN 0
    ELSE IF z >= 0
         THEN LET e == ExpNeg(z) IN (1000 * ExpScale + (ExpScale + e) \div 2) \div (ExpScale + e)
         ELSE LET e == ExpNeg(-z) IN (1000 * e + (ExpScale + e) \div 2) \div (ExpScale + e)

RECURSIVE SumSeq(_)
SumSeq(s) == IF s = <<>> THEN 0 ELSE s[1] + SumSeq(Tail(s))

Min(a, b) == IF a < b THEN a ELSE b

\* feature values with 1.0 for a name that is not among the features
FeatureValues_default_one(features, model) ==
    [i \in 1..Len(model.feature_order) |-> Get(features, model.feature_order[i], 10)]

\* the feature vector calculate_ml_score builds: features[name] if name in features
\* else 0.0, in the order of model['feature_order']
FeatureValues(features, model) ==
    [i \in 1..Len(model.feature_order) |-> Get(features, model.feature_order[i], 0)]

\* the names of feature_order that calculate_ml_score replaced by 0.0
Defaulted(features, model) ==
    {model.feature_order[i] : i \in 1..Len(model.feature_order)} \ DOMAIN features

\* sum(coef * val for coef, val in zip(coefficients, feature_values)) + intercept,
\* in hundredths: zip stops at the shorter of the two
LinearScore(model, feature_values) ==
    SumSeq([i \in 1..Min(Len(model.coefficients), Len(feature_values)) |->
               model.coefficients[i] * feature_values[i]]) + 10 * model.intercept

calculate_ml_score(features, model) ==
    Sigmoid(LinearScore(model, FeatureValues(features, model)))

\* the dict find_matches passes to calculate_ml_score
MatchFeatures(embedding_sim, rule_features) ==
    [ embedding_similarity |-> embedding_sim,
      industry_match |-> rule_features.industry_match,
      geo_match |-> rule_features.geo_match ]

\* (0.7 * embedding_sim) + (0.3 * ml_score) in thousandths
FinalScore(embedding_sim, ml_score) == 70 * embedding_sim + (3 * ml_score) \div 10

\* a sort that leaves the list as it is
SortDesc_unsorted(s) == s

\* results.sort(key=final_score, reverse=True): stable, descending
RECURSIVE SortDesc(_)
SortDesc(s) ==
    IF s = <<>> THEN <<>>
    ELSE LET rest == SortDesc(Tail(s))
             ahead == {i \in 1..Len(rest) : rest[i].final_score > s[1].final_score}
             k == Cardinality(ahead)
         IN SubSeq(rest, 1, k) \o <<s[1]>> \o SubSeq(rest, k + 1, Len(rest))

\* results[:TOP_RESULTS] keeping one entry too many
Top_one_more(s) == SubSeq(s, 1, Min(TOP_RESULTS + 1, Len(s)))

\* results[:TOP_RESULTS]
Top(s) == SubSeq(s, 1, Min(TOP_RESULTS, Len(s)))

\* json.loads of the embedding_vector column, for the strings that parse; any
\* other string raises
JsonLoads ==
    [ v \in {"[1, 0]", "[1, 1]", "[0, 1]", "[-1, 0]", "[1, 0, 0]", "[]"} |->
        CASE v = "[1, 0]" -> <<1, 0>>
          [] v = "[1, 1]" -> <<1, 1>>
          [] v = "[0, 1]" -> <<0, 1>>
          [] v = "[-1, 0]" -> <<-1, 0>>
          [] v = "[1, 0, 0]" -> <<1, 0, 0>>
          [] v = "[]" -> <<>> ]

\* json.loads(value) if value else [], and [] when json.loads raises
ParseEmbedding(value) ==
    IF value = "" THEN <<>>
    ELSE IF value \in DOMAIN JsonLoads THEN JsonLoads[value] ELSE <<>>

\* A row of the candidate query's result.  fault tells whether an exception
\* escapes while the row is scored ("early": before calculate_ml_score, "late":
\* after it).
CandA == [ company_key |-> "c1", company_name |-> "Alpha", industry |-> "technology",
           country |-> "united states", embedding_vector |-> "[1, 0]",
           fault |-> "none" ]
CandB == [ company_key |-> "c2", company_name |-> "Beta", industry |-> "healthcare",
           country |-> "canada", embedding_vector |-> "[1, 1]",
           fault |-> "none" ]
\* an embedding opposite to the challenge's
CandNeg == [CandB EXCEPT !.company_key = "c3", !.embedding_vector = "[-1, 0]"]
\* an embedding of another dimension than the challenge's
CandDim == [CandA EXCEPT !.company_key = "c4", !.embedding_vector = "[1, 0, 0]"]
\* embeddings that are empty, unparsable, an empty list; a row without company_key
CandEmpty == [CandA EXCEPT !.company_key = "c5", !.embedding_vector = ""]
CandBad == [CandA EXCEPT !.company_key = "c6", !.embedding_vector = "[1, 0"]
CandEmptyList == [CandA EXCEPT !.company_key = "c7", !.embedding_vector = "[]"]
CandNoKey == [CandA EXCEPT !.company_key = ""]
\* rows whose scoring raises
CandEarly == [CandA EXCEPT !.company_key = "c8", !.fault = "early"]
CandLate == [CandA EXCEPT !.company_key = "c9", !.fault = "late"]

\* the candidate dict get_candidates_from_athena builds from a row
Candidate(row) == [row EXCEPT !.embedding_vector = ParseEmbedding(row.embedding_vector)]

\* if data.get('company_key') and data.get('embedding_vector'): candidates.append
KeepCandidate(data) == data.company_key # "" /\ data.embedding_vector # <<>>

get_candidates_from_athena(rows) ==
    SelectSeq([i \in 1..Len(rows) |-> Candidate(rows[i])], KeepCandidate)

\* the challenge embedding Bedrock returns
ChallengeEmbedding == <<1, 0>>

Dot(a, b) == SumSeq([i \in 1..Len(a) |-> a[i] * b[i]])
ISqrt(n) == CHOOSE k \in 0..n : k * k <= n /\ n < (k + 1) * (k + 1)

\* cosine_similarity raises inside calculate_cosine_similarity: the two arrays have
\* different numbers of columns
cosine_raises(embedding1, embedding2) ==
    /\ embedding1 # <<>> /\ embedding2 # <<>>
    /\ Len(embedding1) # Len(embedding2)

\* a cosine over the common prefix of the two vectors, without the except branch
calculate_cosine_similarity_prefix(embedding1, embedding2) ==
    LET k == Min(Len(embedding1), Len(embedding2))
        d == Dot(SubSeq(embedding1, 1, k), SubSeq(embedding2, 1, k))
        n == Dot(embedding1, embedding1) * Dot(embedding2, embedding2)
    IN IF n = 0 THEN 0
       ELSE IF d >= 0 THEN ISqrt((100 * d * d) \div n)
       ELSE -ISqrt((100 * d * d) \div n)

\* calculate_cosine_similarity in tenths (truncated): 0.0 for an empty embedding,
\* 0.0 from the except branch when the dimensions differ (cosine_similarity
\* raises), 0.0 for a zero vector (sklearn leaves a zero row unnormalised)
calculate_cosine_similarity(embedding1, embedding2) ==
    IF embedding1 = <<>> \/ embedding2 = <<>> THEN 0
    ELSE IF cosine_raises(embedding1, embedding2) THEN 0
    ELSE LET d == Dot(embedding1, embedding2)
             n == Dot(embedding1, embedding1) * Dot(embedding2, embedding2)
         IN IF n = 0 THEN 0
            ELSE IF d >= 0 THEN ISqrt((100 * d * d) \div n)
            ELSE -ISqrt((100 * d * d) \div n)

-----------------------------------------------------------------------------
(* Rule features of the matcher: str.lower, str.split, `in`, and the taxonomies *)

Uppers == "ABCDEFGHIJKLMNOPQRSTUVWXYZ"
Lowers == "abcdefghijklmnopqrstuvwxyz"

Char(s, i) == SubSeq(s, i, i)

\* str.isupper() of one character (ASCII letters)
IsUpper(c) == \E i \in 1..Len(Uppers) : Char(Uppers, i) = c

LowerChar(c) ==
    IF IsUpper(c) THEN Char(Lowers, CHOOSE i \in 1..Len(Uppers) : Char(Uppers, i) = c)
    ELSE c

\* str.lower()
RECURSIVE Lower(_)
Lower(s) == IF s = "" THEN "" ELSE LowerChar(Char(s, 1)) \o Lower(SubSeq(s, 2, Len(s)))

\* keyword in text
Contains(keyword, text) ==
    \E i \in 1..(Len(text) - Len(keyword) + 1) : SubSeq(text, i, i + Len(keyword) - 1) = keyword

\* str.split(): the words of text between runs of blanks; word is the word being read
RECURSIVE Words(_, _)
Words(text, word) ==
    IF text = "" THEN (IF word = "" THEN <<>> ELSE <<word>>)
    ELSE LET c == Char(text, 1)
             rest == SubSeq(text, 2, Len(text))
         IN IF c # " " THEN Words(rest, word \o c)
            ELSE IF word = "" THEN Words(rest, "")
            ELSE <<word>> \o Words(rest, "")

Split(text) == Words(text, "")

\* ' '.join(words)
RECURSIVE Join(_)
Join(words) ==
    IF words = <<>> THEN ""
    ELSE IF Len(words) = 1 THEN words[1]
    ELSE words[1] \o " " \o Join(Tail(words))

\* industry_keywords of _extract_industry_from_text, in the order of the dict
industry_keywords ==
    << [label |-> "technology",
        keywords |-> <<"tech", "software", "ai", "artificial intelligence",
                       "machine learning", "data", "cloud", "saas">>],
       [label |-> "healthcare",
        keywords |-> <<"health", "medical", "pharma", "biotech", "healthcare", "medicine">>],
       [label |-> "finance",
        keywords |-> <<"fintech", "finance", "banking", "payments", "crypto", "blockchain">>],
       [label |-> "ecommerce",
        keywords |-> <<"ecommerce", "retail", "marketplace", "shopping", "online store">>],
       [label |-> "education",
        keywords |-> <<"education", "edtech", "learning", "school", "university">>],
       [label |-> "energy",
        keywords |-> <<"energy", "renewable", "solar", "wind", "clean energy">>],
       [label |-> "transportation",
        keywords |-> <<"transport", "mobility", "logistics", "delivery", "autonomous">>],
       [label |-> "real_estate",
        keywords |-> <<"real estate", "property", "housing", "construction">>] >>

\* country_keywords of _extract_country_from_text, in the order of the dict
country_keywords ==
    << [label |-> "united states", keywords |-> <<"usa", "us", "united states", "america">>],
       [label |-> "canada", keywords |-> <<"canada", "canadian">>],
       [label |-> "united kingdom",
        keywords |-> <<"uk", "britain", "england", "united kingdom">>],
       [label |-> "germany", keywords |-> <<"germany", "german">>],
       [label |-> "france", keywords |-> <<"france", "french">>],
       [label |-> "australia", keywords |-> <<"australia", "australian">>],
       [label |-> "singapore", keywords |-> <<"singapore", "singaporean">>],
       [label |-> "india", keywords |-> <<"india", "indian">>],
       [label |-> "china", keywords |-> <<"china", "chinese">>],
       [label |-> "japan", keywords |-> <<"japan", "japanese">>] >>

\* any(keyword in text_lower for keyword in keywords)
AnyKeyword(keywords, text_lower) ==
    \E k \in 1..Len(keywords) : Contains(keywords[k], text_lower)

\* a loop that keeps the last entry that matches
FirstMatch_last(table, text_lower) ==
    LET hits == {i \in 1..Len(table) : AnyKeyword(table[i].keywords, text_lower)}
    IN IF hits = {} THEN ""
       ELSE table[CHOOSE i \in hits : \A j \in hits : j <= i].label

\* for label, keywords in table.items(): if any(...): return label; return ''
FirstMatch(table, text_lower) ==
    LET hits == {i \in 1..Len(table) : AnyKeyword(table[i].keywords, text_lower)}
    IN IF hits = {} THEN ""
       ELSE table[CHOOSE i \in hits : \A j \in hits : i <= j].label

_extract_industry_from_text(text) == FirstMatch(industry_keywords, Lower(text))

_extract_country_from_text(text) == FirstMatch(country_keywords, Lower(text))

\* the first three capitalised words of more than two characters, lower-cased
_extract_company_name_from_text(text) ==
    LET words == Split(text)
        capitalized_words ==
            SelectSeq(words, LAMBDA word : IsUpper(Char(word, 1)) /\ Len(word) > 2)
    IN Lower(Join(SubSeq(capitalized_words, 1, Min(3, Len(capitalized_words)))))

RuleFields == {"industry", "country", "company_name"}

\* the fields of a candidate whose value is not a string (None, a number): the
\* candidate names them in non_string; .lower() raises on them
NonString(candidate) == Get(candidate, "non_string", {}) \cap DOMAIN candidate

\* candidate.get(field, '').lower()
LowerField(candidate, field) == Lower(Get(candidate, field, ""))

ZeroFeatures == [industry_match |-> 0, geo_match |-> 0, name_similarity |-> 0]

\* a handler that returns the features computed before the exception
calculate_rule_features_partial(challenge_text, candidate) ==
    LET challenge_industry == _extract_industry_from_text(challenge_text)
    IN IF NonString(candidate) \cap RuleFields # {}
       THEN IF "industry" \in NonString(candidate) THEN <<>>
            ELSE [industry_match |->
                     IF challenge_industry # ""
                        /\ Contains(challenge_industry, LowerField(candidate, "industry"))
                     THEN 10 ELSE 0]
       ELSE ZeroFeatures

\* calculate_rule_features, in tenths (name_similarity truncated): every feature is
\* 0.0 when anything in the function raises
calculate_rule_features(challenge_text, candidate) ==
    IF NonString(candidate) \cap RuleFields # {} THEN ZeroFeatures
    ELSE LET challenge_industry == _extract_industry_from_text(challenge_text)
             candidate_industry == LowerField(candidate, "industry")
             challenge_country == _extract_country_from_text(challenge_text)
             candidate_country == LowerField(candidate, "country")
             challenge_name == _extract_company_name_from_text(challenge_text)
             candidate_name == LowerField(candidate, "company_name")
             challenge_words == {Split(challenge_name)[i] : i \in 1..Len(Split(challenge_name))}
             candidate_words == {Split(candidate_name)[i] : i \in 1..Len(Split(candidate_name))}
         IN [ industry_match |->
                  IF challenge_industry # "" /\ Contains(challenge_industry, candidate_industry)
                  THEN 10 ELSE 0,
              geo_match |->
                  IF challenge_country # "" /\ Contains(challenge_country, candidate_country)
                  THEN 10 ELSE 0,
              name_similarity |->
                  IF challenge_name # "" /\ candidate_name # ""
                     /\ challenge_words # {} /\ candidate_words # {}
                  THEN (10 * Cardinality(challenge_words \cap candidate_words))
                           \div Cardinality(challenge_words \cup candidate_words)
                  ELSE 0 ]

-----------------------------------------------------------------------------
(* A request of the matcher *)

\* the event of an invocation: without challenge_text, with an empty one, with one
Events == { [industry |-> "healthcare"],
            [challenge_text |-> ""],
            [challenge_text |-> "AI startup for hospitals in Canada"] }

\* the fields of a candidate that calculate_rule_features reads
RuleInput(candidate) ==
    [f \in DOMAIN candidate \cap (RuleFields \cup {"non_string"}) |-> candidate[f]]

\* calculate_rule_features is a function of the challenge text and of these
\* fields only: its values on the texts of the events and on the rows of the
\* candidate query, computed once
RequestRuleFeatures ==
    { [challenge_text |-> e.challenge_text, input |-> RuleInput(c),
       features |-> calculate_rule_features(e.challenge_text, c)] :
          e \in {event \in Events : "challenge_text" \in DOMAIN event}, c \in {CandA, CandB} }

\* rule_features = self.calculate_rule_features(challenge_text, candidate)
rule_features_of(challenge_text, candidate) ==
    LET known == {m \in RequestRuleFeatures : /\ m.challenge_text = challenge_text
                                              /\ m.input = RuleInput(candidate)}
    IN IF known # {} THEN (CHOOSE m \in known : TRUE).features
       ELSE calculate_rule_features(challenge_text, candidate)

NewMatcher == [ml_model |-> None, model_loaded |-> FALSE]

\* event: the event of the invocation; calls: the external calls the request made;
\* failed: the upstream call that raised; fetched: the candidate query returned;
\* rows: the rows it returned; skipped: the company_key of every candidate whose
\* scoring raised; loadFailed: the company_key of every candidate for which
\* load_ml_model could not load the object
NoLog == [event |-> None, calls |-> {}, failed |-> "none", fetched |-> FALSE,
          rows |-> <<>>, skipped |-> <<>>, loadFailed |-> {}]

\* a handler that rejects only an event without the key
MissingChallengeText_key_only(event) == "challenge_text" \notin DOMAIN event

\* challenge_text = event.get('challenge_text', ''); if not challenge_text
MissingChallengeText(event) == Get(event, "challenge_text", "") = ""

\* a success response that reports no average when there are no matches
MatchResponse_no_average(matches) ==
    [ statusCode |-> 200,
      matches_found |-> Len(matches),
      average_similarity |->
          IF matches # <<>>
          THEN SumSeq([i \in 1..Len(matches) |-> matches[i].final_score]) \div Len(matches)
          ELSE -1,
      matches |-> matches ]

\* the handler's success response (message and challenge_text left out)
MatchResponse(matches) ==
    [ statusCode |-> 200,
      matches_found |-> Len(matches),
      average_similarity |->
          IF matches # <<>>
          THEN SumSeq([i \in 1..Len(matches) |-> matches[i].final_score]) \div Len(matches)
          ELSE 0,
      matches |-> matches ]

ReqFinish(q, response) ==
    /\ rpc' = [rpc EXCEPT ![q] = "done"]
    /\ rresp' = [rresp EXCEPT ![q] = response]

\* lambda_handler and find_matches up to the candidate loop; with no candidates,
\* up to the handler's return.  emit_cloudwatch_metrics swallows its exceptions.
ReqStart(q, events, rowlists) ==
    /\ rpc[q] = "idle"
    /\ UNCHANGED <<lifecycleVars, featureVars, ruleVars, evaluationVars, results>>
    /\ \E event \in events, embedOk \in BOOLEAN, queryOk \in BOOLEAN, rows \in rowlists :
         IF MissingChallengeText(event)
         THEN /\ ReqFinish(q, ErrorResponse("challenge_text is required"))
              /\ rlog' = [rlog EXCEPT ![q].event = event]
              /\ UNCHANGED <<matcher, todo>>
         ELSE /\ matcher' = [matcher EXCEPT ![q] = NewMatcher]
              /\ IF ~embedOk
                 THEN /\ ReqFinish(q, ErrorResponse("get_embedding"))
                      /\ rlog' = [rlog EXCEPT ![q].event = event,
                                               ![q].calls = {"invoke_model"},
                                               ![q].failed = "get_embedding"]
                      /\ UNCHANGED todo
                 ELSE IF ~queryOk
                 THEN /\ ReqFinish(q, ErrorResponse("get_candidates_from_athena"))
                      /\ rlog' = [rlog EXCEPT ![q].event = event,
                                               ![q].calls = {"invoke_model", "athena"},
                                               ![q].failed = "get_candidates_from_athena"]
                      /\ UNCHANGED todo
                 ELSE LET candidates == get_candidates_from_athena(rows)
                      IN IF candidates = <<>>
                         THEN /\ ReqFinish(q, MatchResponse(<<>>))
                              /\ rlog' = [rlog EXCEPT
                                            ![q].event = event,
                                            ![q].calls = {"invoke_model", "athena",
                                                          "put_metric_data"},
                                            ![q].fetched = TRUE,
                                            ![q].rows = rows]
                              /\ UNCHANGED todo
                         ELSE /\ todo' = [todo EXCEPT ![q] = candidates]
                              /\ rpc' = [rpc EXCEPT ![q] = "scoring"]
                              /\ rlog' = [rlog EXCEPT
                                            ![q].event = event,
                                            ![q].calls = {"invoke_model", "athena"},
                                            ![q].fetched = TRUE,
                                            ![q].rows = rows]
                              /\ UNCHANGED rresp

\* what the loop does with the outcome of one candidate: results.append(result),
\* or continue when an exception was raised
AfterCandidate(res, raised, result) ==
    IF raised THEN res ELSE Append(res, result)

\* the result dict the loop body builds for a candidate, scored with model
ScoreCandidate(challenge_text, candidate, model) ==
    LET embedding_sim == calculate_cosine_similarity(ChallengeEmbedding,
                                                     candidate.embedding_vector)
        rule_features == rule_features_of(challenge_text, candidate)
        features == MatchFeatures(embedding_sim, rule_features)
        ml_score == calculate_ml_score(features, model)
    IN [ company_key |-> candidate.company_key,
         company_name |-> candidate.company_name,
         industry |-> candidate.industry,
         country |-> candidate.country,
         embedding_similarity |-> embedding_sim,
         ml_score |-> ml_score,
         final_score |-> FinalScore(embedding_sim, ml_score),
         rule_features |-> rule_features,
         model |-> model,                                   \* ghost
         defaulted |-> Defaulted(features, model) ]         \* ghost

\* one iteration of the candidate loop of find_matches
ReqScore(q, readOks) ==
    /\ rpc[q] = "scoring" /\ todo[q] # <<>>
    /\ \E readOk \in readOks :
         LET candidate == Head(todo[q])
             reads == ~(matcher[q].model_loaded /\ Truthy(matcher[q].ml_model))
             loaded == load_ml_model(matcher[q], store, readOk)
             result == ScoreCandidate(rlog[q].event.challenge_text, candidate,
                                       loaded.model)
         IN /\ results' = [results EXCEPT
                             ![q] = AfterCandidate(@, candidate.fault # "none", result)]
            /\ IF candidate.fault = "early"
               THEN /\ UNCHANGED matcher
                    /\ rlog' = [rlog EXCEPT ![q].skipped = Append(@, candidate.company_key)]
               ELSE /\ matcher' = [matcher EXCEPT ![q] = loaded.self]
                    /\ rlog' = [rlog EXCEPT
                                  ![q].calls = IF reads THEN @ \cup {"get_object"} ELSE @,
                                  ![q].loadFailed =
                                      IF reads /\ GetObject(store, ML_MODEL_KEY, readOk) = None
                                      THEN @ \cup {candidate.company_key} ELSE @,
                                  ![q].skipped = IF candidate.fault = "late"
                                                 THEN Append(@, candidate.company_key)
                                                 ELSE @]
    /\ todo' = [todo EXCEPT ![q] = Tail(@)]
    /\ UNCHANGED <<lifecycleVars, featureVars, ruleVars, evaluationVars, rpc, rresp>>

\* the sort and the truncation of find_matches, and the handler's metrics and response
ReqReturn(q) ==
    /\ rpc[q] = "scoring" /\ todo[q] = <<>>
    /\ ReqFinish(q, MatchResponse(Top(SortDesc(results[q]))))
    /\ rlog' = [rlog EXCEPT ![q].calls = @ \cup {"put_metric_data"}]
    /\ UNCHANGED <<lifecycleVars, featureVars, ruleVars, evaluationVars, matcher, todo, results>>

-----------------------------------------------------------------------------
(* The evaluation lambda (lambda-evaluation-metrics.py) *)

EvalRuns == 1..MaxEvalRuns

\* the model types load_latest_models looks for under ml-models/
ModelTypes == {"logistic_regression", "random_forest"}

\* len(X_test) < 10
InsufficientTestData(test) == test.n < 10

\* the test sets get_test_data returns: n records of which positives have
\* is_successful = 1
TestSets == { [n |-> 5, positives |-> 2], [n |-> 12, positives |-> 6],
              [n |-> 12, positives |-> 0], [n |-> 12, positives |-> 12] }

\* every label of y_test belongs to one class
SingleClass(test) == test.positives = 0 \/ test.positives = test.n

\* roc_auc_score on a y_true with one class, by scikit-learn build: it raises
\* ValueError("Only one class present in y_true"), or it warns and returns nan
SklearnBuilds == {"raises", "nan"}

\* evaluate_model raises: roc_auc_score raises on a single class, or
\* cross_val_score does, every fit of a logistic regression on one class failing
evaluate_model_raises(model_type, test, sklearn) ==
    /\ SingleClass(test)
    /\ sklearn = "raises" \/ model_type = "logistic_regression"

\* the ModelMetrics evaluate_model returns; degenerate: auc_score is nan and the
\* ROC curve has no defined points
evaluate_model(model_type, test, sklearn) ==
    [model_name |-> model_type, test_samples |-> test.n, degenerate |-> SingleClass(test)]

\* the loop of lambda_handler over the models: a model whose evaluation raises is
\* logged and left out
EvaluateAll(models, test, sklearn) ==
    { evaluate_model(m, test, sklearn) :
          m \in {t \in models : ~evaluate_model_raises(t, test, sklearn)} }

NoEval == [pc |-> "idle", models |-> {}, test |-> None, sklearn |-> "none",
           metrics |-> {}, failed |-> "none", resp |-> None]

EvalResponse(code, text) == [statusCode |-> code, message |-> text]

\* load_latest_models, get_test_data and the loop over the models
EvalStart(e, modelsets, tests, builds) ==
    /\ ev[e].pc = "idle"
    /\ \E models \in modelsets, test \in tests, sklearn \in builds, loadOk \in BOOLEAN :
         LET metrics == EvaluateAll(models, test, sklearn)
             in == [ev[e] EXCEPT !.models = models, !.test = test, !.sklearn = sklearn]
         IN ev' = [ev EXCEPT ![e] =
                IF ~loadOk
                THEN [NoEval EXCEPT !.pc = "done", !.failed = "load",
                                    !.resp = EvalResponse(500, "error")]
                ELSE IF models = {}
                THEN [in EXCEPT !.pc = "done",
                                !.resp = EvalResponse(200, "No models found for evaluation")]
                ELSE IF InsufficientTestData(test)
                THEN [in EXCEPT !.pc = "done",
                                !.resp = EvalResponse(200, "Insufficient test data for evaluation")]
                ELSE IF metrics = {}
                THEN [in EXCEPT !.pc = "done",
                                !.resp = EvalResponse(500, "No models were successfully evaluated")]
                ELSE [in EXCEPT !.pc = "evaluated", !.metrics = metrics]]
    /\ UNCHANGED <<lifecycleVars, requestVars, featureVars, ruleVars, reports, utcnow>>

\* put_object of one report under a key
PutReport(objects, key, body) ==
    [k \in DOMAIN objects \cup {key} |-> IF k = key THEN body ELSE objects[k]]

\* the key of save_metrics_to_s3 and of save_metrics_to_glue at a timestamp
MetricsKey(timestamp) == [prefix |-> "ml-evaluation", timestamp |-> timestamp]
ParquetKey(timestamp) == [prefix |-> "glue-tables", timestamp |-> timestamp]

\* save_metrics_to_s3, save_metrics_to_glue and the response; each save reads
\* datetime.utcnow() and the clock has moved on when the next one reads it
EvalSave(e) ==
    /\ ev[e].pc = "evaluated"
    /\ \E s3Ok \in BOOLEAN, glueOk \in BOOLEAN :
         LET body == [run |-> e, models |-> ev[e].metrics]
             first == IF s3Ok THEN PutReport(reports, MetricsKey(utcnow), body) ELSE reports
         IN /\ reports' = IF s3Ok /\ glueOk
                          THEN PutReport(first, ParquetKey(utcnow + 1), body) ELSE first
            /\ ev' = [ev EXCEPT ![e] =
                   IF s3Ok /\ glueOk
                   THEN [@ EXCEPT !.pc = "done", !.resp = EvalResponse(200, "evaluated")]
                   ELSE [@ EXCEPT !.pc = "done", !.failed = IF s3Ok THEN "glue" ELSE "s3",
                                  !.resp = EvalResponse(500, "error")]]
    /\ utcnow' = utcnow + 2
    /\ UNCHANGED <<lifecycleVars, requestVars, featureVars, ruleVars>>

-----------------------------------------------------------------------------
(* The lifecycle specification: training invocations and matcher requests *)

NoFeatureCheck ==
    /\ fdf = None /\ fout = None /\ fserve = None /\ fidx = 0 /\ fscore = None

NoRuleCheck == call = None /\ ret = None

NoEvaluation ==
    /\ ev = [e \in EvalRuns |-> NoEval]
    /\ reports = <<>>
    /\ utcnow = 1

NoChecks == NoFeatureCheck /\ NoRuleCheck /\ NoEvaluation

\* no invocation has started, no request has arrived
InitRuns ==
    /\ evalStore = None
    /\ clock = 1
    /\ kind = [r \in Runs |-> "none"]
    /\ pc = [r \in Runs |-> "idle"]
    /\ nrows = [r \in Runs |-> -1]
    /\ model_data = [r \in Runs |-> None]
    /\ old_model = [r \in Runs |-> None]
    /\ resp = [r \in Runs |-> None]
    /\ hist = [r \in Runs |-> NoHist]

InitRequests ==
    /\ rpc = [q \in Reqs |-> "idle"]
    /\ matcher = [q \in Reqs |-> NewMatcher]
    /\ todo = [q \in Reqs |-> <<>>]
    /\ results = [q \in Reqs |-> <<>>]
    /\ rlog = [q \in Reqs |-> NoLog]
    /\ rresp = [q \in Reqs |-> None]

InitSystem ==
    /\ store = [k \in ModelKeys |-> None]
    /\ saved = {}
    /\ InitRuns
    /\ InitRequests

Init == InitSystem /\ NoChecks

\* The promotion policy and the runs' outcomes depend on the length of the data and
\* on the metrics, not on the records or on the coefficients: one record set, one
\* coefficient value; the weekly trainer never reads its pr_auc_score.
PolicyFrames == DataFrames(SampleSizes, {<<RowA>>})

Next ==
    \/ \E r \in Runs : MLTrain(r, PolicyFrames, MLOutcomes, {2}, MetricVals, MetricVals)
    \/ \E r \in Runs : MLLoadPrevious(r)
    \/ \E r \in Runs : MLDecide(r)
    \/ \E r \in Runs : WeeklyTrain(r, PolicyFrames, WeeklyOutcomes, {2}, MetricVals, {0})
    \/ \E r \in Runs : WeeklySaveModel(r)
    \/ \E r \in Runs : WeeklySaveEval(r)

Spec == Init /\ [][Next]_vars

-----------------------------------------------------------------------------
(* The artifact specification: the same runs over every record set and every  *)
(* fit output, with all metrics 0.                                            *)

ArtifactFrames == DataFrames(SampleSizes, TrainingRows)

NextArtifacts ==
    \/ \E r \in Runs : MLTrain(r, ArtifactFrames, MLOutcomes, CoefVals, {0}, {0})
    \/ \E r \in Runs : MLLoadPrevious(r)
    \/ \E r \in Runs : MLDecide(r)
    \/ \E r \in Runs : WeeklyTrain(r, ArtifactFrames, WeeklyOutcomes, CoefVals, {0}, {0})
    \/ \E r \in Runs : WeeklySaveModel(r)
    \/ \E r \in Runs : WeeklySaveEval(r)

SpecArtifacts == Init /\ [][NextArtifacts]_vars

-----------------------------------------------------------------------------
(* The serving specification: matcher requests against the ML trainer, whose   *)
(* runs train on 100 records without a failing step, with accuracy 0 and an    *)
(* AUC of 0 or MaxMetric, so that a later run can replace an earlier artifact. *)

ServingFrames == DataFrames({100}, {<<RowA>>})
ServingRows == {<<>>, <<CandA, CandB>>}

NextServing ==
    \/ \E r \in Runs : MLTrain(r, ServingFrames, {"ok"}, {2}, {0, MaxMetric}, {0})
    \/ \E r \in Runs : MLLoadPrevious(r)
    \/ \E r \in Runs : MLDecide(r)
    \/ \E q \in Reqs : ReqStart(q, Events, ServingRows)
    \/ \E q \in Reqs : ReqScore(q, BOOLEAN)
    \/ \E q \in Reqs : ReqReturn(q)

SpecServing == Init /\ [][NextServing]_vars

-----------------------------------------------------------------------------
(* The matching specification: matcher requests over every kind of candidate   *)
(* row, against a store that no run changes meanwhile: empty, or holding an    *)
(* artifact the ML trainer trained on RowA and saved.                          *)

MaxCandidates == 22     \* rows of the longest result of the candidate query

\* a result longer than TOP_RESULTS, one of whose rows raises while scored
LongRows ==
    [ i \in 1..MaxCandidates |->
        [CandA EXCEPT !.company_key = "k" \o ToString(i),
                      !.embedding_vector = <<"[1, 1]", "[0, 1]", "[1, 0]">>[(i % 3) + 1],
                      !.fault = IF i = 3 THEN "early" ELSE "none"] ]

MatchRows ==
    { <<>>,
      <<CandEmpty, CandBad, CandEmptyList, CandNoKey>>,
      <<CandB, CandA, CandDim>>,
      <<CandBad, CandA, CandNeg>>,
      <<CandNeg, CandEarly, CandA, CandLate, CandB>>,
      LongRows }

DeployedArtifacts ==
    LET p == prepare_features(AthenaRecords(<<RowA>>))
    IN {train_model(p.X, p.y, p.feature_names, fit, 0, 0, 1) :
            fit \in FitOutputs(NumCols(p.X), CoefVals)}

InitMatching ==
    /\ \E deployed \in SUBSET DeployedArtifacts :
          /\ Cardinality(deployed) <= 1
          /\ saved = deployed
          /\ store = [k \in ModelKeys |->
                        IF k = ML_MODEL_KEY /\ deployed # {}
                        THEN CHOOSE a \in deployed : TRUE ELSE None]
    /\ InitRuns
    /\ InitRequests
    /\ NoChecks

NextMatching ==
    \/ \E q \in Reqs : ReqStart(q, Events, MatchRows)
    \/ \E q \in Reqs : ReqScore(q, {TRUE})
    \/ \E q \in Reqs : ReqReturn(q)

SpecMatching == InitMatching /\ [][NextMatching]_vars

-----------------------------------------------------------------------------
(* The standalone scorer: MatcherScoring.prepare_features *)

\* the value MatcherScoring.prepare_features appends for one feature name
ServingValue(feature_name, embedding_similarity, rule_features, company_features) ==
    IF feature_name = "embedding_similarity" THEN embedding_similarity
    ELSE IF feature_name = "ml_score" THEN 0       \* placeholder
    ELSE IF feature_name \in {"industry_match", "geo_match", "name_similarity"}
         THEN Get(rule_features, feature_name, 0)
    ELSE IF feature_name \in {"employee_count", "annual_revenue", "total_funding",
                              "domain_health_score", "content_richness_score"}
         THEN Get(company_features, feature_name, 0)
    ELSE IF StartsWith(feature_name, "industry_")
         THEN IF "industry" \in DOMAIN company_features
                 /\ company_features.industry = Remove(feature_name, "industry_")
              THEN 10 ELSE 0
    ELSE IF StartsWith(feature_name, "country_")
         THEN IF "country" \in DOMAIN company_features
                 /\ company_features.country = Remove(feature_name, "country_")
              THEN 10 ELSE 0
    ELSE 0

serving_prepare_features(artifact, embedding_similarity, rule_features, company_features) ==
    [j \in 1..Len(artifact.feature_order) |->
        ServingValue(artifact.feature_order[j], embedding_similarity, rule_features,
                     company_features)]

\* the arguments a caller of score_match has for a company record: its stored
\* embedding similarity, its rule features ({} when the stored value is no dict)
\* and its company columns (a NULL column is a missing key)
CompanyColumns == {"industry", "country", "employee_count", "annual_revenue",
                   "total_funding", "domain_health_score", "content_richness_score"}
CompanyFeatures(row) == [f \in CompanyColumns \cap DOMAIN row |-> row[f]]
RuleFeaturesOf(row) == IF IsDict(row.rule_features) THEN row.rule_features ELSE <<>>

\* MatcherScoring.compute_ml_score, in thousandths: np.dot raises when the two
\* lengths differ and the except branch returns 0.0
compute_ml_score(artifact, features) ==
    IF Len(features) # Len(artifact.coefficients) THEN 0
    ELSE Sigmoid(SumSeq([i \in 1..Len(features) |-> features[i] * artifact.coefficients[i]])
                 + 10 * artifact.intercept)

Max(a, b) == IF a > b THEN a ELSE b

\* MatcherScoring.compute_final_score, in thousandths:
\* max(0.0, min(1.0, 0.6*e + 0.2*g + 0.1*a + 0.1*ml))
compute_final_score(embedding_similarity, industry_geo_score, apollo_score, ml_score) ==
    Max(0, Min(1000, 60 * embedding_similarity + 20 * industry_geo_score
                     + 10 * apollo_score + ml_score \div 10))

\* the features a caller of score_match supplies, as one dict by feature name: the
\* embedding similarity, the rule features, the numeric company columns, and 1.0
\* under industry_<v> and country_<v> for the company's industry and country
RuleNames == {"industry_match", "geo_match", "name_similarity"}
SuppliedFeatures(embedding_similarity, rule_features, company_features) ==
    LET plain == (DOMAIN rule_features \cap RuleNames)
                   \cup (DOMAIN company_features \ {"industry", "country"})
        onehot == {"industry_" \o company_features[c] : c \in DOMAIN company_features \cap {"industry"}}
                   \cup {"country_" \o company_features[c] : c \in DOMAIN company_features \cap {"country"}}
    IN [ n \in {"embedding_similarity"} \cup plain \cup onehot |->
           IF n = "embedding_similarity" THEN embedding_similarity
           ELSE IF n \in DOMAIN rule_features \cap RuleNames THEN rule_features[n]
           ELSE IF n \in DOMAIN company_features \ {"industry", "country"}
                THEN company_features[n]
           ELSE 10 ]

-----------------------------------------------------------------------------
(* The feature specification: one data frame is prepared and trained on by   *)
(* one of the trainers, then one of its records is prepared for scoring.     *)

RowSeqs(n) == UNION {[1..k -> RowPool] : k \in 1..n}

InitFeatures ==
    /\ InitSystem
    /\ fdf \in {[trainer |-> t, rows |-> rs] : t \in {"ml", "weekly"}, rs \in RowSeqs(MaxRows)}
    /\ fout = None
    /\ fserve = None
    /\ fidx = 0
    /\ fscore = None
    /\ NoRuleCheck
    /\ NoEvaluation

\* prepare_features and train_model of the trainer fdf.trainer, and the artifact as
\* a reader gets it back after save_model
FeatTrain ==
    /\ fout = None
    /\ LET rows == IF fdf.trainer = "ml" THEN AthenaRecords(fdf.rows) ELSE fdf.rows
           p == prepare_features(rows)
       IN \E fit \in FitOutputs(NumCols(p.X), CoefVals) :
            LET model == IF fdf.trainer = "ml"
                         THEN train_model(p.X, p.y, p.feature_names, fit, 0, 0, clock)
                         ELSE weekly_train_model(p.X, p.y, p.feature_names, fit, 0, 0, clock)
                key == IF fdf.trainer = "ml" THEN ML_MODEL_KEY ELSE WEEKLY_MODEL_KEY
            IN fout' = [ p |-> p, model |-> model,
                         stored |-> GetObject(PutObject(store, key, model), key, TRUE) ]
    /\ UNCHANGED <<lifecycleVars, requestVars, ruleVars, evaluationVars,
                   fdf, fserve, fidx, fscore>>

\* MatcherScoring.prepare_features for record i of the data frame
FeatServe(i) ==
    /\ fout # None /\ fserve = None
    /\ i \in 1..Len(fdf.rows)
    /\ fserve' = serving_prepare_features(fout.model, fdf.rows[i].embedding_similarity,
                                          RuleFeaturesOf(fdf.rows[i]),
                                          CompanyFeatures(fdf.rows[i]))
    /\ fidx' = i
    /\ UNCHANGED <<lifecycleVars, requestVars, ruleVars, evaluationVars,
                   fdf, fout, fscore>>

\* industry_geo_score and apollo_score of a call of score_match, in tenths: in
\* range, and out of it
ScoreInputs == {-30, 0, 10, 20}

\* the module's score_match: MatcherScoring(MODEL_BUCKET) loads the artifact
\* (_load_model re-raises when it cannot, artifact = None) and the except branch
\* returns the error result; otherwise the scorer's score_match
score_match(artifact, embedding_similarity, industry_geo_score, apollo_score, rule_features, company_features) ==
    IF artifact = None
    THEN [ final_score |-> 0, embedding_similarity |-> embedding_similarity,
           industry_geo_score |-> industry_geo_score, apollo_score |-> apollo_score,
           ml_score |-> 0, error |-> "Error loading model" ]
    ELSE LET features == serving_prepare_features(artifact, embedding_similarity,
                                                  rule_features, company_features)
             ml_score == compute_ml_score(artifact, features)
         IN [ final_score |-> compute_final_score(embedding_similarity, industry_geo_score,
                                                  apollo_score, ml_score),
              embedding_similarity |-> embedding_similarity,
              industry_geo_score |-> industry_geo_score, apollo_score |-> apollo_score,
              ml_score |-> ml_score ]

\* compute_ml_score and compute_final_score of score_match for the record served,
\* calculate_ml_score of the matcher on the same features, and the result of the
\* module's score_match, whose get_object succeeds (loaded) or raises
FeatScore ==
    /\ fserve # None /\ fscore = None
    /\ \E industry_geo_score \in ScoreInputs, apollo_score \in ScoreInputs,
          readOk \in BOOLEAN :
         LET row == fdf.rows[fidx]
             features == SuppliedFeatures(row.embedding_similarity, RuleFeaturesOf(row),
                                          CompanyFeatures(row))
             ml_score == compute_ml_score(fout.stored, fserve)
         IN fscore' = [ features |-> features,
                        matcher |-> calculate_ml_score(features, fout.stored),
                        serving |-> ml_score,
                        final |-> compute_final_score(row.embedding_similarity,
                                                      industry_geo_score, apollo_score,
                                                      ml_score),
                        loaded |-> readOk,
                        result |-> score_match(IF readOk THEN fout.stored ELSE None,
                                               row.embedding_similarity,
                                               industry_geo_score, apollo_score,
                                               RuleFeaturesOf(row), CompanyFeatures(row)) ]
    /\ UNCHANGED <<lifecycleVars, requestVars, ruleVars, evaluationVars,
                   fdf, fout, fserve, fidx>>

NextFeatures ==
    \/ FeatTrain
    \/ \E i \in 1..MaxRows : FeatServe(i)
    \/ FeatScore

SpecFeatures == InitFeatures /\ [][NextFeatures]_vars

-----------------------------------------------------------------------------
(* The rule specification: the matcher's pure functions on bounded inputs *)

\* embeddings of up to MaxDim components
Vectors == UNION {[1..k -> {-1, 0, 1}] : k \in 0..MaxDim}

ChallengeTexts == { "", "AI startup for hospitals", "Medical school in Canada",
                    "Retail banking for the UK", "Acme Robotics builds drones",
                    "Solar Wind Energy in Germany and France",
                    "payments marketplace for Indian logistics" }

\* the values of a candidate's fields when they are strings
FieldValues == [ industry : {"Healthcare", "Retail", "Technology"},
                 country : {"Canada"},
                 company_name : {"Acme Robotics Inc", ""} ]

\* candidate records: every field may be absent, a string, or not a string
RuleCandidates ==
    UNION { { [f \in present \cup {"non_string"} |->
                 IF f = "non_string" THEN bad \cap present
                 ELSE IF f \in bad THEN "" ELSE vals[f]] :
              vals \in FieldValues } :
            present \in SUBSET RuleFields, bad \in SUBSET RuleFields }

RuleCalls ==
    {[fn |-> "cosine", embedding1 |-> a, embedding2 |-> b] : a \in Vectors, b \in Vectors}
    \cup {[fn |-> f, text |-> t] : f \in {"industry", "country"}, t \in ChallengeTexts}
    \cup {[fn |-> "rule_features", text |-> t, candidate |-> c] :
             t \in ChallengeTexts, c \in RuleCandidates}

InitRules ==
    /\ InitSystem
    /\ NoFeatureCheck
    /\ NoEvaluation
    /\ call \in RuleCalls
    /\ ret = None

Returns(fn, value) ==
    /\ call.fn = fn /\ ret = None
    /\ ret' = [value |-> value]
    /\ UNCHANGED <<lifecycleVars, requestVars, featureVars, evaluationVars, call>>

RuleCosine == Returns("cosine", calculate_cosine_similarity(call.embedding1, call.embedding2))
RuleIndustry == Returns("industry", _extract_industry_from_text(call.text))
RuleCountry == Returns("country", _extract_country_from_text(call.text))
RuleFeatures == Returns("rule_features", calculate_rule_features(call.text, call.candidate))

NextRules == RuleCosine \/ RuleIndustry \/ RuleCountry \/ RuleFeatures

SpecRules == InitRules /\ [][NextRules]_vars

-----------------------------------------------------------------------------
(* The evaluation specification: invocations of the evaluation lambda *)

InitEvaluation ==
    /\ InitSystem
    /\ NoFeatureCheck
    /\ NoRuleCheck
    /\ NoEvaluation

NextEvaluation ==
    \/ \E e \in EvalRuns : EvalStart(e, SUBSET ModelTypes, TestSets, SklearnBuilds)
    \/ \E e \in EvalRuns : EvalSave(e)

SpecEvaluation == InitEvaluation /\ [][NextEvaluation]_vars

-----------------------------------------------------------------------------
(* Claims C1 - C6: the promotion policy and the training runs (under Spec) *)

StatusCode(response) == Get(response, "statusCode", 0)

\* new auc - old auc > 0.01 or new accuracy - old accuracy > 0.01, in hundredths
Improves(new_model, old) ==
    \/ new_model.auc_score - old.auc_score > 1
    \/ new_model.accuracy - old.accuracy > 1

\* C1: an ML-trainer run that found a previously deployed model calls save_model
\* (overwriting the deployed artifact with its new model) if and only if
\* new auc_score - old auc_score > 0.01 or new accuracy - old accuracy > 0.01, both
\* strict; otherwise the artifact is left as it is and the run returns 200 with
\* model_saved = false.  (A save_model whose put_object raises writes nothing.)
C1_PromotionPolicy ==
    [][\A r \in Runs :
        (kind[r] = "ml" /\ pc[r] = "loaded" /\ pc'[r] = "done" /\ old_model[r] # None) =>
            LET better == Improves(model_data[r], old_model[r])
            IN /\ hist'[r].saveCalled <=> better
               /\ hist'[r].wrote => /\ better
                                    /\ store'[ML_MODEL_KEY] = model_data[r]
                                    /\ resp'[r] = [statusCode |-> 200, model_saved |-> TRUE]
               /\ ~hist'[r].wrote => store' = store
               /\ ~better => resp'[r] = [statusCode |-> 200, model_saved |-> FALSE]
               /\ (better /\ StatusCode(resp'[r]) = 200) => hist'[r].wrote
      ]_vars

\* C1 witness: a run has promoted its model over a previous one it compared with
C1_Witness ==
    \E r \in Runs :
        /\ kind[r] = "ml" /\ pc[r] = "done"
        /\ hist[r].decision = "Model improved" /\ hist[r].wrote
        /\ resp[r] = [statusCode |-> 200, model_saved |-> TRUE]

\* C2: the deployed artifact is overwritten only by a run that compared its new
\* model with the deployed one and reached a promotion decision (either trainer)
C2_OverwriteOnlyOnDecision ==
    \A r \in Runs : hist[r].wrote => hist[r].decision # "none"

\* C3: a run promotes on the ground "no previous model" only when no model was
\* deployed when it looked, not when one existed but could not be read
C3_NoPreviousMeansAbsent ==
    \A r \in Runs :
        (kind[r] = "ml" /\ hist[r].saveCalled
           /\ hist[r].decision = "No previous model to compare") => ~hist[r].prevExisted

\* C4: a run given fewer than 100 records (99 is insufficient, 100 trains) ends with
\* statusCode 200 and model_saved = false, calling neither fit nor save_model and
\* writing nothing, in both trainers; a run given 100 that returns 200 has fitted
C4_InsufficientDataIsNoOp ==
    \A r \in Runs :
        (pc[r] = "done" /\ nrows[r] >= 0) =>
            /\ nrows[r] < 100 =>
                  /\ resp[r] = [statusCode |-> 200, training_samples |-> nrows[r],
                                model_saved |-> FALSE]
                  /\ ~hist[r].fitted /\ ~hist[r].saveCalled /\ ~hist[r].wrote
            /\ (nrows[r] >= 100 /\ StatusCode(resp[r]) = 200) => hist[r].fitted

\* C4 witness: both trainers have ended a run on 99 records
C4_Witness ==
    \E r1, r2 \in Runs :
        /\ kind[r1] = "ml" /\ kind[r2] = "weekly"
        /\ pc[r1] = "done" /\ pc[r2] = "done"
        /\ nrows[r1] = 99 /\ nrows[r2] = 99

\* C5: a run that ends with statusCode 500 has not changed the deployed artifact
C5_ErrorLeavesArtifact ==
    \A r \in Runs : StatusCode(resp[r]) = 500 => ~hist[r].wrote

\* C6: at most one run is between load_previous_model and save_model
C6_SingleWriter ==
    Cardinality({r \in Runs : kind[r] = "ml" /\ pc[r] = "loaded"}) <= 1

-----------------------------------------------------------------------------
(* Claims C7 - C10: the artifact as the contract between training and serving *)

\* the models a request has scored with so far, and the one its matcher caches
ModelsUsed(q) ==
    {results[q][i].model : i \in 1..Len(results[q])}
        \cup (IF matcher[q].model_loaded THEN {matcher[q].ml_model} ELSE {})

\* C7 (under SpecServing): every model a request scores with is the default model
\* or one complete artifact as one save_model call wrote it: coefficients,
\* intercept and feature_order (and every other entry) of the same training run
C7_ReadersSeeWholeArtifacts ==
    \A q \in Reqs : \A m \in ModelsUsed(q) :
        \/ m = DefaultModel
        \/ \E a \in saved :
              /\ m.coefficients = a.coefficients
              /\ m.intercept = a.intercept
              /\ m.feature_order = a.feature_order
              /\ m = a

\* C7 witness: a request has scored with a trained artifact that a later run has
\* since replaced in the store
C7_Witness ==
    \E q \in Reqs : \E i \in 1..Len(results[q]) :
        /\ results[q][i].model \in saved
        /\ store[ML_MODEL_KEY] \in saved
        /\ store[ML_MODEL_KEY] # results[q][i].model

\* every artifact there is: written, deployed, in a run's hands, or the default
Artifacts ==
    saved \cup {store[k] : k \in {k \in ModelKeys : store[k] # None}}
          \cup {model_data[r] : r \in {r \in Runs : model_data[r] # None}}
          \cup {DefaultModel}

\* C8 (under SpecArtifacts): every artifact has as many coefficients as feature_order entries
C8_CoefficientsMatchFeatureOrder ==
    \A a \in Artifacts : Len(a.coefficients) = Len(a.feature_order)

\* C8 witness: both trainers have written an artifact, over different vocabularies
C8_Witness ==
    \E a, b \in saved :
        /\ "accuracy" \in DOMAIN a /\ "pr_auc_score" \in DOMAIN b
        /\ Len(a.feature_order) # Len(b.feature_order)

\* C9 (under SpecServing): scoring with a deployed artifact, find_matches supplies a
\* value for every name of its feature_order: none is replaced by 0.0
C9_ServingSuppliesEveryFeature ==
    \A q \in Reqs : \A i \in 1..Len(results[q]) :
        results[q][i].model # DefaultModel => results[q][i].defaulted = {}

\* C10 (under SpecFeatures): for a record of the training data, the serving-side
\* prepare_features puts in every column of feature_order the value the training-side
\* prepare_features computed for that record
C10_ServingEqualsTraining ==
    fserve # None =>
        \A j \in 1..Len(fout.model.feature_order) : fserve[j] = fout.p.X[fidx][j]

-----------------------------------------------------------------------------
(* Claim C11: the persisted feature_order (under SpecFeatures) *)

\* the values of a categorical column observed in the run, as the trainer holds
\* them: a NULL is '' in the ML trainer's records and 'unknown' in the weekly one's
ObservedValues(col) ==
    {Get(fdf.rows[i], col, IF fdf.trainer = "ml" THEN "" ELSE "unknown") :
        i \in 1..Len(fdf.rows)}

\* C11: the feature_order of the saved artifact is the ten fixed names, then one
\* industry_<v> per distinct industry value of the run, then one country_<v> per
\* distinct country value, and is the column order prepare_features returned
C11_FeatureOrderPersisted ==
    fout # None =>
        LET fo == fout.stored.feature_order
            ni == Cardinality(ObservedValues("industry"))
            nc == Cardinality(ObservedValues("country"))
        IN /\ Len(fo) = 10 + ni + nc
           /\ SubSeq(fo, 1, 10) =
                 << "embedding_similarity", "ml_score", "industry_match", "geo_match",
                    "name_similarity", "employee_count", "annual_revenue",
                    "total_funding", "domain_health_score", "content_richness_score" >>
           /\ {fo[k] : k \in 11..(10 + ni)} =
                 {"industry_" \o v : v \in ObservedValues("industry")}
           /\ {fo[k] : k \in (11 + ni)..Len(fo)} =
                 {"country_" \o v : v \in ObservedValues("country")}
           /\ fo = fout.p.feature_names
           /\ Len(fout.p.X[1]) = Len(fo)

\* C11 witness: an artifact trained on two records with different industries, one
\* of them NULL
C11_Witness ==
    /\ fout # None
    /\ Cardinality(ObservedValues("industry")) = 2
    /\ \E i \in 1..Len(fdf.rows) : "industry" \notin DOMAIN fdf.rows[i]

-----------------------------------------------------------------------------
(* Claim C12: ml_score (under SpecFeatures) *)

\* the example of the specification: coefficients [1.0, -0.5], intercept 0.1
ExampleModel ==
    [ coefficients |-> <<10, -5>>, intercept |-> 1,
      feature_order |-> <<"embedding_similarity", "industry_match">> ]
ExampleFeatures == [embedding_similarity |-> 8, industry_match |-> 10]

\* sum_i coefficients[i] * value_i + intercept in hundredths, value_i the supplied
\* value of the feature named feature_order[i], 0.0 when none is supplied
PairedScore(model, features) ==
    SumSeq([i \in 1..Len(model.coefficients) |->
               model.coefficients[i] *
                  (IF model.feature_order[i] \in DOMAIN features
                   THEN features[model.feature_order[i]] ELSE 0)])
       + 10 * model.intercept

\* C12: calculate_ml_score returns sigmoid(sum_i coefficients[i] * value_i +
\* intercept), value_i being the supplied value of feature_order[i] or 0.0; the
\* example gives sigmoid(0.4) = 0.599; the standalone scorer's prepare_features
\* followed by compute_ml_score returns the same value on the same features
C12_MlScoreFormula ==
    /\ calculate_ml_score(ExampleFeatures, ExampleModel) = 599
    /\ PairedScore(ExampleModel, ExampleFeatures) = 40
    /\ compute_ml_score(ExampleModel,
                        serving_prepare_features(ExampleModel, 8, [industry_match |-> 10],
                                                 <<>>)) = 599
    /\ fscore # None =>
          /\ fscore.matcher = Sigmoid(PairedScore(fout.stored, fscore.features))
          /\ fscore.serving = fscore.matcher

\* C12 witness: a record scored with a trained artifact, some of whose features are
\* supplied and some not, to a score that is neither 0, 0.5 nor 1
C12_Witness ==
    /\ fscore # None
    /\ "industry_tech" \in DOMAIN fscore.features
    /\ Defaulted(fscore.features, fout.stored) # {}
    /\ fscore.serving \notin {0, 500, 1000}

-----------------------------------------------------------------------------
(* Claims C13 - C20: find_matches and the matcher's handler (under SpecMatching) *)

Done(q) == rpc[q] = "done"
Succeeded(q) == Done(q) /\ StatusCode(rresp[q]) = 200

\* C13: every final_score find_matches returns lies in [0, 1] (0..1000 thousandths)
C13_FinalScoreInRange ==
    \A q \in Reqs : Succeeded(q) =>
        \A i \in 1..Len(rresp[q].matches) :
            rresp[q].matches[i].final_score \in 0..1000

\* C14: find_matches returns at most TOP_RESULTS entries
C14_AtMostTopResults ==
    \A q \in Reqs : Succeeded(q) =>
        /\ Len(rresp[q].matches) <= TOP_RESULTS
        /\ rresp[q].matches_found = Len(rresp[q].matches)

\* C14 witness: more than TOP_RESULTS candidates were scored, one was skipped, and
\* TOP_RESULTS entries are returned
C14_Witness ==
    \E q \in Reqs :
        /\ Succeeded(q)
        /\ Len(results[q]) > TOP_RESULTS
        /\ rlog[q].skipped # <<>>
        /\ Len(rresp[q].matches) = TOP_RESULTS

\* C15: the returned list is in non-increasing order of final_score, and no scored
\* candidate left out of it has a final_score greater than one of a returned entry
C15_SortedTopOfRanking ==
    \A q \in Reqs : Succeeded(q) =>
        LET matches == rresp[q].matches
            returned == {matches[i].company_key : i \in 1..Len(matches)}
        IN /\ \A i \in 1..Len(matches) - 1 :
                 matches[i].final_score >= matches[i + 1].final_score
           /\ \A j \in 1..Len(results[q]) :
                 \/ /\ results[q][j].company_key \in returned
                    /\ \E i \in 1..Len(matches) : matches[i] = results[q][j]
                 \/ \A i \in 1..Len(matches) :
                       results[q][j].final_score <= matches[i].final_score

\* C15 witness: candidates scored in another order than that of their scores, more
\* of them than are returned, and returned entries of different scores
C15_Witness ==
    \E q \in Reqs :
        /\ Succeeded(q)
        /\ Len(results[q]) > Len(rresp[q].matches)
        /\ results[q][1].final_score < results[q][2].final_score
        /\ rresp[q].matches[1].final_score > rresp[q].matches[TOP_RESULTS].final_score

\* C16: when the candidate query returns no candidates the request succeeds with
\* no matches, matches_found 0 and average_similarity 0.0, and nothing was scored
\* and no model was loaded
C16_EmptyCandidates ==
    \A q \in Reqs :
        (Done(q) /\ rlog[q].fetched /\ get_candidates_from_athena(rlog[q].rows) = <<>>) =>
            /\ rresp[q] = [statusCode |-> 200, matches_found |-> 0,
                           average_similarity |-> 0, matches |-> <<>>]
            /\ results[q] = <<>>
            /\ "get_object" \notin rlog[q].calls
            /\ matcher[q] = NewMatcher

\* C16 witness: a request whose candidate query returned no rows has finished
C16_Witness ==
    \E q \in Reqs :
        /\ Done(q) /\ rlog[q].fetched
        /\ rlog[q].rows = <<>>

\* C17: a request without challenge_text, or with an empty one, ends with an error
\* response and made no embedding call, candidate query, model load or metric
\* emission
C17_MissingChallengeText ==
    \A q \in Reqs :
        (Done(q) /\ ("challenge_text" \notin DOMAIN rlog[q].event
                     \/ rlog[q].event.challenge_text = "")) =>
            /\ StatusCode(rresp[q]) = 500
            /\ "matches" \notin DOMAIN rresp[q]
            /\ rlog[q].calls = {}
            /\ results[q] = <<>>

\* C17 witness: a request with an empty challenge_text has finished
C17_Witness ==
    \E q \in Reqs :
        /\ Done(q)
        /\ "challenge_text" \in DOMAIN rlog[q].event
        /\ rlog[q].event.challenge_text = ""

\* C18: when the challenge-embedding call or the candidate query fails, the request
\* ends with an error response without matches; after a failed embedding call no
\* candidate query is made
C18_UpstreamFailureFailsRequest ==
    \A q \in Reqs :
        (Done(q) /\ rlog[q].failed # "none") =>
            /\ StatusCode(rresp[q]) = 500
            /\ "matches" \notin DOMAIN rresp[q]
            /\ rlog[q].failed = "get_embedding" => "athena" \notin rlog[q].calls

\* C18 witness: a request whose embedding call failed has finished
C18_Witness ==
    \E q \in Reqs : Done(q) /\ rlog[q].failed = "get_embedding"

\* the model every candidate of a request is scored with while no run writes and
\* every read succeeds
ModelInUse == IF store[ML_MODEL_KEY] # None THEN store[ML_MODEL_KEY] ELSE DefaultModel

\* scoring the candidate fails: an exception reaches the handler of the loop body,
\* or is raised and logged inside calculate_cosine_similarity
ScoringFails(c) ==
    c.fault # "none" \/ cosine_raises(ChallengeEmbedding, c.embedding_vector)
ScoresWell(c) == ~ScoringFails(c)

\* C19: when the scoring of some candidates failed, the request succeeds and
\* returns what it would return had those candidates not been in the candidate set
C19_FailureSkipsOnlyThatCandidate ==
    \A q \in Reqs :
        LET candidates == get_candidates_from_athena(rlog[q].rows)
            others == SelectSeq(candidates, ScoresWell)
            scored == [i \in 1..Len(others) |->
                          ScoreCandidate(rlog[q].event.challenge_text, others[i], ModelInUse)]
        IN (Done(q) /\ rlog[q].fetched /\ Len(others) < Len(candidates)) =>
               /\ StatusCode(rresp[q]) = 200
               /\ rresp[q] = MatchResponse(Top(SortDesc(scored)))

\* the stored embedding is empty, does not parse, or has another dimension than
\* the challenge embedding
Malformed(row) ==
    \/ row.embedding_vector = ""
    \/ row.embedding_vector \notin DOMAIN JsonLoads
    \/ Len(JsonLoads[row.embedding_vector]) # Len(ChallengeEmbedding)

\* C20: a candidate whose stored embedding is empty or malformed is not among the
\* returned matches, and the request does not fail because of it
C20_MalformedEmbeddingSkipped ==
    \A q \in Reqs :
        (Done(q) /\ rlog[q].fetched) =>
            /\ StatusCode(rresp[q]) = 200
            /\ \A k \in 1..Len(rlog[q].rows) :
                  Malformed(rlog[q].rows[k]) =>
                      \A i \in 1..Len(rresp[q].matches) :
                          rresp[q].matches[i].company_key # rlog[q].rows[k].company_key

-----------------------------------------------------------------------------
(* Claim C21: the default model (under SpecServing) *)

\* C21: a candidate for which the model object could not be loaded is scored with
\* coefficients [0.5, 0.3, 0.2] and intercept 0.0 over embedding_similarity,
\* industry_match and geo_match, and the request returns a normal ranked result
C21_DefaultModelFallback ==
    \A q \in Reqs :
        /\ \A i \in 1..Len(results[q]) :
              results[q][i].company_key \in rlog[q].loadFailed =>
                  LET r == results[q][i]
                  IN /\ r.ml_score = Sigmoid(5 * r.embedding_similarity
                                             + 3 * r.rule_features.industry_match
                                             + 2 * r.rule_features.geo_match)
                     /\ r.final_score = 70 * r.embedding_similarity + (3 * r.ml_score) \div 10
        /\ (Done(q) /\ rlog[q].loadFailed # {}) =>
              /\ StatusCode(rresp[q]) = 200
              /\ rresp[q].matches = Top(SortDesc(results[q]))
              /\ Len(rresp[q].matches) = Len(results[q])

\* C21 witness: a request has returned matches scored while a deployed artifact
\* could not be read
C21_Witness ==
    \E q \in Reqs :
        /\ Succeeded(q)
        /\ store[ML_MODEL_KEY] # None
        /\ Cardinality(rlog[q].loadFailed) = 2
        /\ Len(rresp[q].matches) = 2

-----------------------------------------------------------------------------
(* Claims C22, C23, C27, C28: the matcher's pure functions (under SpecRules) *)

Returned(fn) == ret # None /\ call.fn = fn

\* C22: industry_match of "AI startup for hospitals" against a candidate of
\* industry "Healthcare" is 1.0, and against one of industry "Retail" it is 0.0
C22_IndustryMatchExample ==
    (/\ Returned("rule_features")
     /\ call.text = "AI startup for hospitals"
     /\ "industry" \in DOMAIN call.candidate
     /\ NonString(call.candidate) = {}) =>
        /\ call.candidate.industry = "Healthcare" => ret.value.industry_match = 10
        /\ call.candidate.industry = "Retail" => ret.value.industry_match = 0

\* the input of a feature is absent or malformed
NoInput(candidate, field) == field \notin DOMAIN candidate \/ field \in NonString(candidate)

\* C23: calculate_rule_features returns, for every challenge text and every
\* candidate record, industry_match in {0, 1}, geo_match in {0, 1} and
\* name_similarity in [0, 1], and 0.0 for every feature whose input is absent or
\* malformed
C23_RuleFeaturesTotal ==
    Returned("rule_features") =>
        LET f == ret.value
            c == call.candidate
        IN /\ Get(f, "industry_match", -1) \in {0, 10}
           /\ Get(f, "geo_match", -1) \in {0, 10}
           /\ Get(f, "name_similarity", -1) \in 0..10
           /\ NoInput(c, "industry") => Get(f, "industry_match", -1) = 0
           /\ NoInput(c, "country") => Get(f, "geo_match", -1) = 0
           /\ NoInput(c, "company_name") => Get(f, "name_similarity", -1) = 0
           /\ call.text = "" => f = ZeroFeatures

\* C23 witness: the function has returned for a candidate whose industry is not a
\* string and whose country is absent
C23_Witness ==
    /\ Returned("rule_features")
    /\ "industry" \in NonString(call.candidate)
    /\ "country" \notin DOMAIN call.candidate
    /\ call.text = "Medical school in Canada"

\* the entries of a taxonomy that have a keyword contained in the lower-cased text
Matching(table, text) ==
    {i \in 1..Len(table) : \E k \in 1..Len(table[i].keywords) :
                               Contains(table[i].keywords[k], Lower(text))}

LabelOrder(table) == [i \in 1..Len(table) |-> table[i].label]

\* C27: the industry (country) returned is the label of the first entry of the
\* ordered taxonomy that has a keyword contained in the lower-cased text, however
\* many later entries match, and the empty label when no entry matches
C27_FirstMatchWins ==
    /\ LabelOrder(industry_keywords) =
           <<"technology", "healthcare", "finance", "ecommerce", "education", "energy",
             "transportation", "real_estate">>
    /\ \A fn \in {"industry", "country"} :
          Returned(fn) =>
              LET table == IF fn = "industry" THEN industry_keywords ELSE country_keywords
                  hits == Matching(table, call.text)
              IN /\ hits = {} <=> ret.value = ""
                 /\ \A i \in hits : (\A j \in hits : i <= j) => ret.value = table[i].label

\* C27 witness: a text for which three entries of the industry taxonomy match has
\* been resolved
C27_Witness ==
    /\ Returned("industry")
    /\ Cardinality(Matching(industry_keywords, call.text)) = 3

AllZero(v) == \A i \in 1..Len(v) : v[i] = 0

-----------------------------------------------------------------------------
(* Claim C24: the evaluation lambda (under SpecEvaluation) *)

-----------------------------------------------------------------------------
(* Claim C25: the evaluation history (under Spec) *)

\* C25: no run overwrites or deletes an evaluation report an earlier run has
\* persisted: the weekly trainer's report object, once written, keeps its
\* content, and every report of the evaluation lambda stays under its key
C25_EvaluationAppendOnly ==
    [][/\ evalStore # None => evalStore' = evalStore
       /\ \A k \in DOMAIN reports : k \in DOMAIN reports' /\ reports'[k] = reports[k]
      ]_vars

-----------------------------------------------------------------------------
(* Claim C26: the standalone scorer without its artifact (under SpecFeatures) *)

\* C26: when the artifact cannot be loaded, score_match returns a scored result
\* and not an error result
C26_DefaultOnLoadFailure ==
    (fscore # None /\ ~fscore.loaded) => "error" \notin DOMAIN fscore.result

-----------------------------------------------------------------------------
(* Claim C29: one model per request (under SpecServing) *)

\* C29: all the candidates of one request are scored with the same model
C29_OneModelPerRequest ==
    \A q \in Reqs :
        \A i, j \in 1..Len(results[q]) : results[q][i].model = results[q][j].model

-----------------------------------------------------------------------------
(* Claim C30: overwrites of the deployed artifact (under Spec) *)

\* C30: whenever the deployed artifact of the ML trainer is replaced by another,
\* the new model improves on the model it replaces: its auc_score or its accuracy
\* exceeds the replaced model's by more than 0.01
C30_OverwriteImprovesOnReplaced ==
    [][(store[ML_MODEL_KEY] # None /\ store'[ML_MODEL_KEY] # store[ML_MODEL_KEY]) =>
           Improves(store'[ML_MODEL_KEY], store[ML_MODEL_KEY])
      ]_vars

====
